---- MODULE Spec2Model ----
(***************************************************************************)
(* Model of the Django admin command populate_expiry_date                  *)
(* (lms/djangoapps/verify_student/management/commands/                     *)
(* populate_expiry_date.py).                                               *)
(*                                                                         *)
(* The table SoftwareSecurePhotoVerification is the sequence `store`: the  *)
(* row with primary key i is store[i].  One invocation of Command.handle   *)
(* is the sequence of steps ReadMax, ReadMin, then per window EnterBatch,  *)
(* per user FindRecent and Save, then NextBatch, and finally ExitLoop.     *)
(* Every database access of the command is one step, so that another       *)
(* writer of the table can act between any two of them (ConcSpec).         *)
(***************************************************************************)
EXTENDS Integers, Sequences, FiniteSets

\* ------------------------------------------------------------------ bounds
MaxRecords == 3
MaxUserId == 3
MaxTime == 2
MaxBatch == 3

\* settings.VERIFY_STUDENT["DAYS_GOOD_FOR"], read at line 70; its value is
\* set by the deployment's configuration.
DAYS_GOOD_FOR == 2

\* expiry_date is nullable; NULL is written 0 (every timestamp is >= 1).
NULL == 0

Statuses == {"approved", "denied"}
UserIds == 1..MaxUserId
Times == 1..MaxTime

\* The rows of the table before the command has ever run: expiry_date is
\* the column being populated, and is still NULL.
Rows == [user_id : UserIds, status : Statuses, updated_at : Times,
         expiry_date : {NULL}]

\* The other writers of the table; each makes one write.
Writers == {"other"}

\* The window log keeps this many entries: a run with a positive batch
\* size queries at most MaxUserId windows.
WindowLog == MaxUserId + 1

\* The in-memory model instance: the row's fields and its primary key.
NoObject == [pk |-> 0, user_id |-> 0, status |-> "none", updated_at |-> 0,
             expiry_date |-> NULL]

VARIABLES
    store,        \* the table: store[pk] is the row with that primary key
    batch_size,   \* options['batch_size']
    pc,           \* position of the command in handle
    max_user_id,  \* local of handle
    batch_start,  \* local of handle
    batch_stop,   \* local of handle
    users,        \* user ids of the window's query still to be iterated
    recent,       \* recent_verification: the instance loaded by latest()
    store0,       \* history: the table when the current invocation started
    saves,        \* history: saves[pk] = number of save() calls on that row
    windows,      \* history: the batch_start of the windows queried
    run,          \* "first", "again" (second run in succession), "copy"
    result1,      \* history: the table when the first invocation finished
                  \* and, in run "copy", the first invocation's batch_size
    ext_writes,   \* number of writes other writers have made
    read_at,      \* history: ext_writes when latest() last read the table
    write_at      \* history: ext_writes when save() last wrote the table

vars == <<store, batch_size, pc, max_user_id, batch_start, batch_stop, users,
          recent, store0, saves, windows, run, result1, ext_writes, read_at,
          write_at>>

\* What one invocation never changes: its option, and the histories of the
\* invocations and of the other writers.
invocation == <<batch_size, store0, run, result1, ext_writes>>

\* ------------------------------------------------------- the query set
\* self.sspv: the rows with status 'approved' (line 43).  A QuerySet is
\* lazy: every use of self.sspv queries the table as it is then.
sspv(st) == {i \in DOMAIN st : st[i].status = "approved"}

\* self.sspv[0].user_id with order_by('-user_id'): the greatest user_id.
FirstUserId(st) ==
    CHOOSE u \in {st[i].user_id : i \in sspv(st)} :
        \A i \in sspv(st) : st[i].user_id <= u

\* self.sspv.reverse()[0].user_id: the least user_id.
LastUserId(st) ==
    CHOOSE u \in {st[i].user_id : i \in sspv(st)} :
        \A i \in sspv(st) : st[i].user_id >= u

\* Mutant: user_id__lte=batch_stop, the window's end included.
batch_queryset_lte(st, start, stop) ==
    {i \in sspv(st) : st[i].user_id >= start /\ st[i].user_id <= stop}

\* self.sspv.filter(user_id__gte=batch_start, user_id__lt=batch_stop)
batch_queryset(st, start, stop) ==
    {i \in sspv(st) : st[i].user_id >= start /\ st[i].user_id < stop}

\* batch_queryset.order_by().values('user_id').distinct()
DistinctUsers(st, start, stop) ==
    {st[i].user_id : i \in batch_queryset(st, start, stop)}

\* Mutant: earliest('updated_at') in place of latest('updated_at').
find_earliest_verification(st, user_id) ==
    {i \in sspv(st) :
        /\ st[i].user_id = user_id
        /\ \A j \in sspv(st) :
              st[j].user_id = user_id => st[j].updated_at >= st[i].updated_at}

\* self.sspv.filter(user_id=user_id).latest('updated_at'): ORDER BY
\* updated_at DESC LIMIT 1.  Rows that share the greatest updated_at are
\* all possible results: the order among them is the database's choice.
find_recent_verification(st, user_id) ==
    {i \in sspv(st) :
        /\ st[i].user_id = user_id
        /\ \A j \in sspv(st) :
              st[j].user_id = user_id => st[j].updated_at <= st[i].updated_at}

\* The model instance of row pk.
Instance(st, pk) ==
    [pk |-> pk, user_id |-> st[pk].user_id, status |-> st[pk].status,
     updated_at |-> st[pk].updated_at, expiry_date |-> st[pk].expiry_date]

\* Mutant: an expiry_date already set is extended instead of recomputed.
ExpiryFor_Extend(obj) ==
    IF obj.expiry_date = NULL
    THEN obj.updated_at + DAYS_GOOD_FOR
    ELSE obj.expiry_date + DAYS_GOOD_FOR

\* recent_verification.updated_at + timedelta(days=DAYS_GOOD_FOR)
ExpiryFor(obj) == obj.updated_at + DAYS_GOOD_FOR

\* The row an instance's save() writes: Model.save() without update_fields
\* updates every column of the row with the instance's primary key.
RowOf(obj) ==
    [user_id |-> obj.user_id, status |-> obj.status,
     updated_at |-> obj.updated_at, expiry_date |-> obj.expiry_date]

\* ------------------------------------------------------------------ Init
RowKey(r) ==
    (r.user_id * 2 + (IF r.status = "approved" THEN 1 ELSE 0)) * (MaxTime + 1)
        + r.updated_at

\* Primary keys are arbitrary and no query of the command orders by them,
\* so one table per permutation of the rows is taken.
RECURSIVE SortedStores(_, _)
SortedStores(rows, n) ==
    IF n = 0 THEN {<<>>}
    ELSE UNION {{Append(s, r) :
                    r \in {x \in rows :
                              Len(s) = 0 \/ RowKey(s[Len(s)]) <= RowKey(x)}} :
                s \in SortedStores(rows, n - 1)}

\* The tables of at most MaxRecords rows taken from `rows`.
InitStores(rows) == UNION {SortedStores(rows, n) : n \in 0..MaxRecords}

InitWith(rows, sizes) ==
    /\ store \in InitStores(rows)
    /\ batch_size \in sizes
    /\ pc = "start"
    /\ max_user_id = 0
    /\ batch_start = 0
    /\ batch_stop = 0
    /\ users = {}
    /\ recent = NoObject
    /\ store0 = store
    /\ saves = [i \in DOMAIN store |-> 0]
    /\ windows = <<>>
    /\ run = "first"
    /\ result1 = [batch_size |-> 0, table |-> <<>>]
    /\ ext_writes = 0
    /\ read_at = 0
    /\ write_at = 0

\* The batch sizes the spec's contract allows: positive integers.
Init == InitWith(Rows, 1..MaxBatch)

\* --------------------------------------------------------------- handle
\* Line 56: max_user_id = self.sspv[0].user_id
ReadMax ==
    /\ pc = "start"
    /\ sspv(store) # {}
    /\ max_user_id' = FirstUserId(store)
    /\ pc' = "readmin"
    /\ UNCHANGED <<store, batch_start, batch_stop, users, recent, saves,
                   windows, read_at, write_at, invocation>>

\* Mutant: the IndexError is not caught.
NoApprovedEntries_Raises ==
    /\ pc = "start"
    /\ sspv(store) = {}
    /\ pc' = "raised"
    /\ UNCHANGED <<store, max_user_id, batch_start, batch_stop, users, recent,
                   saves, windows, read_at, write_at, invocation>>

\* Lines 56, 59-61: self.sspv[0] raises IndexError; handle logs it and
\* returns.
NoApprovedEntries ==
    /\ pc = "start"
    /\ sspv(store) = {}
    /\ pc' = "done"
    /\ UNCHANGED <<store, max_user_id, batch_start, batch_stop, users, recent,
                   saves, windows, read_at, write_at, invocation>>

\* Lines 57-58: batch_start = self.sspv.reverse()[0].user_id;
\* batch_stop = batch_start + batch_size
ReadMin ==
    /\ pc = "readmin"
    /\ sspv(store) # {}
    /\ batch_start' = LastUserId(store)
    /\ batch_stop' = LastUserId(store) + batch_size
    /\ pc' = "while"
    /\ UNCHANGED <<store, max_user_id, users, recent, saves, windows, read_at,
                   write_at, invocation>>

\* Mutant: while batch_start < max_user_id
LoopCondition_Strict == batch_start < max_user_id

\* Line 63: while batch_start <= max_user_id
LoopCondition == batch_start <= max_user_id

\* Lines 63-65: the loop condition holds; the window's distinct user ids are
\* fetched when the for loop starts to iterate.
EnterBatch ==
    /\ pc = "while"
    /\ LoopCondition
    /\ users' = DistinctUsers(store, batch_start, batch_stop)
    /\ windows' = IF Len(windows) < WindowLog
                  THEN Append(windows, batch_start)
                  ELSE windows
    /\ pc' = "for"
    /\ UNCHANGED <<store, max_user_id, batch_start, batch_stop, recent, saves,
                   read_at, write_at, invocation>>

\* Line 63: the loop condition fails; handle returns.
ExitLoop ==
    /\ pc = "while"
    /\ ~LoopCondition
    /\ pc' = "done"
    /\ UNCHANGED <<store, max_user_id, batch_start, batch_stop, users, recent,
                   saves, windows, read_at, write_at, invocation>>

\* Lines 67-68: the next user of the iteration (the query has no ORDER BY:
\* any order), and its most recent approved verification.
FindRecent ==
    /\ pc = "for"
    /\ \E u \in users :
          /\ \E pk \in find_recent_verification(store, u) :
                recent' = Instance(store, pk)
          /\ users' = users \ {u}
    /\ read_at' = ext_writes
    /\ pc' = "save"
    /\ UNCHANGED <<store, max_user_id, batch_start, batch_stop, saves, windows,
                   write_at, invocation>>

\* Mutant: the expiry is written with one UPDATE of all the user's
\* approved rows.
Save_AllRowsOfUser ==
    /\ pc = "save"
    /\ recent' = [recent EXCEPT !.expiry_date = ExpiryFor(recent)]
    /\ store' = [i \in DOMAIN store |->
                    IF i \in sspv(store) /\ store[i].user_id = recent.user_id
                    THEN [store[i] EXCEPT !.expiry_date = ExpiryFor(recent)]
                    ELSE store[i]]
    /\ saves' = [saves EXCEPT ![recent.pk] = @ + 1]
    /\ write_at' = ext_writes
    /\ pc' = "for"
    /\ UNCHANGED <<max_user_id, batch_start, batch_stop, users, windows,
                   read_at, invocation>>

\* Mutant: save(update_fields=['expiry_date']), the other columns are left
\* as the table has them.
Save_UpdateExpiryOnly ==
    /\ pc = "save"
    /\ recent' = [recent EXCEPT !.expiry_date = ExpiryFor(recent)]
    /\ store' = [store EXCEPT ![recent.pk].expiry_date = ExpiryFor(recent)]
    /\ saves' = [saves EXCEPT ![recent.pk] = @ + 1]
    /\ write_at' = ext_writes
    /\ pc' = "for"
    /\ UNCHANGED <<max_user_id, batch_start, batch_stop, users, windows,
                   read_at, invocation>>

\* Lines 69-71: the instance's expiry_date is set and the instance saved.
Save ==
    /\ pc = "save"
    /\ recent' = [recent EXCEPT !.expiry_date = ExpiryFor(recent)]
    /\ store' = [store EXCEPT ![recent.pk] = RowOf(recent')]
    /\ saves' = [saves EXCEPT ![recent.pk] = @ + 1]
    /\ write_at' = ext_writes
    /\ pc' = "for"
    /\ UNCHANGED <<max_user_id, batch_start, batch_stop, users, windows,
                   read_at, invocation>>

\* Mutant: the exception is caught and the loop goes on to the next user.
SaveFails_Swallowed ==
    /\ pc = "save"
    /\ pc' = "for"
    /\ UNCHANGED <<store, max_user_id, batch_start, batch_stop, users, recent,
                   saves, windows, read_at, write_at, invocation>>

\* Line 71: save() raises (the database refuses the write).  Nothing in
\* handle catches it: the exception leaves handle.
SaveFails ==
    /\ pc = "save"
    /\ pc' = "raised"
    /\ UNCHANGED <<store, max_user_id, batch_start, batch_stop, users, recent,
                   saves, windows, read_at, write_at, invocation>>

\* Mutant: line 74 is missing, batch_start never moves.
NextBatch_NoAdvance ==
    /\ pc = "for"
    /\ users = {}
    /\ batch_stop' = batch_stop + batch_size
    /\ pc' = "while"
    /\ UNCHANGED <<store, max_user_id, batch_start, users, recent, saves,
                   windows, read_at, write_at, invocation>>

\* Lines 74-75: the for loop is exhausted; the window advances.
NextBatch ==
    /\ pc = "for"
    /\ users = {}
    /\ batch_start' = batch_stop
    /\ batch_stop' = batch_stop + batch_size
    /\ pc' = "while"
    /\ UNCHANGED <<store, max_user_id, users, recent, saves, windows, read_at,
                   write_at, invocation>>

Handle ==
    \/ ReadMax
    \/ NoApprovedEntries
    \/ ReadMin
    \/ EnterBatch
    \/ ExitLoop
    \/ FindRecent
    \/ Save
    \/ SaveFails
    \/ NextBatch

\* ------------------------------------------------------ further invocations
\* A new invocation of the command: a new Command object, new locals.
Invoke(st, size, kind, size1) ==
    /\ store' = st
    /\ batch_size' = size
    /\ pc' = "start"
    /\ max_user_id' = 0
    /\ batch_start' = 0
    /\ batch_stop' = 0
    /\ users' = {}
    /\ recent' = NoObject
    /\ store0' = st
    /\ saves' = [i \in DOMAIN st |-> 0]
    /\ windows' = <<>>
    /\ run' = kind
    /\ result1' = [batch_size |-> size1, table |-> store]
    /\ read_at' = 0
    /\ write_at' = 0
    /\ UNCHANGED ext_writes

\* The command is run a second time, on the table the first run left.
RunAgain ==
    /\ pc = "done"
    /\ run = "first"
    /\ \E size \in 1..MaxBatch : Invoke(store, size, "again", 0)

\* The command is run with batch_size 1 on a copy of the table the first
\* run started from.
RunOnCopy ==
    /\ pc = "done"
    /\ run = "first"
    /\ Invoke(store0, 1, "copy", batch_size)

\* One invocation of the command, no other writer of the table.
Next == Handle

Spec == Init /\ [][Next]_vars

\* The invocation and a second one, on the table it left or on a copy of
\* the table it started from.
RerunNext ==
    \/ Handle
    \/ RunAgain
    \/ RunOnCopy

\* No query of the command reads the update timestamp of a row that is not
\* approved: those rows hold one update timestamp here.
RerunInit ==
    InitWith({r \in Rows : r.status = "approved" \/ r.updated_at = 1},
             1..MaxBatch)

RerunSpec == RerunInit /\ [][RerunNext]_vars

\* ------------------------------------------------- every accepted option
\* --batch_size is declared type=int (lines 31-39) and handle checks
\* nothing more: 0 is accepted like any positive size.  (A negative size
\* behaves as 0 does, with batch_start decreasing instead of standing.)
\* Nothing that decides how long handle runs reads updated_at: the tables
\* here hold one update timestamp.
AnyInit == InitWith({r \in Rows : r.updated_at = 1}, 0..MaxBatch)

\* The command is one thread that always takes its next step.
AnySpec == AnyInit /\ [][Handle]_vars /\ WF_vars(Handle)

\* ------------------------------------------------------- other writers
\* Lines 57, 59-61: every approved row has gone since line 56 read the
\* table; self.sspv.reverse()[0] raises IndexError inside the same try.
ReadMinNoEntries ==
    /\ pc = "readmin"
    /\ sspv(store) = {}
    /\ pc' = "done"
    /\ UNCHANGED <<store, max_user_id, batch_start, batch_stop, users, recent,
                   saves, windows, read_at, write_at, invocation>>

\* Line 81: the user has no approved row any more; latest() raises
\* DoesNotExist, which nothing catches.
FindRecentDoesNotExist ==
    /\ pc = "for"
    /\ \E u \in users : find_recent_verification(store, u) = {}
    /\ pc' = "raised"
    /\ UNCHANGED <<store, max_user_id, batch_start, batch_stop, users, recent,
                   saves, windows, read_at, write_at, invocation>>

\* Another writer of the table updates a row: a new status, a later
\* updated_at or both.
ExtUpdate ==
    /\ ext_writes < Cardinality(Writers)
    /\ \E pk \in DOMAIN store, s \in Statuses, t \in Times :
          /\ t >= store[pk].updated_at
          /\ <<s, t>> # <<store[pk].status, store[pk].updated_at>>
          /\ store' = [store EXCEPT ![pk].status = s, ![pk].updated_at = t]
    /\ ext_writes' = ext_writes + 1
    /\ UNCHANGED <<batch_size, pc, max_user_id, batch_start, batch_stop, users,
                   recent, store0, saves, windows, run, result1, read_at,
                   write_at>>

\* Another writer inserts a row.
ExtInsert ==
    /\ ext_writes < Cardinality(Writers)
    /\ Len(store) < MaxRecords
    /\ \E r \in Rows : store' = Append(store, r)
    /\ saves' = Append(saves, 0)
    /\ ext_writes' = ext_writes + 1
    /\ UNCHANGED <<batch_size, pc, max_user_id, batch_start, batch_stop, users,
                   recent, store0, windows, run, result1, read_at, write_at>>

ConcNext ==
    \/ Handle
    \/ ReadMinNoEntries
    \/ FindRecentDoesNotExist
    \/ ExtUpdate
    \/ ExtInsert

\* When the command starts the table holds approved rows of one update
\* timestamp; rows in another status and later update timestamps come from
\* the other writers.
ConcInit ==
    InitWith({r \in Rows : r.status = "approved" /\ r.updated_at = 1},
             1..MaxBatch)

ConcSpec == ConcInit /\ [][ConcNext]_vars

\* ---------------------------------------------------------- properties
\* The subjects with at least one approved record.
ApprovedUsers(st) == {st[i].user_id : i \in sspv(st)}

\* The approved records of subject u that hold the subject's maximum
\* update timestamp.
MostRecentApproved(st, u) ==
    {i \in DOMAIN st :
        /\ st[i].status = "approved"
        /\ st[i].user_id = u
        /\ \A j \in DOMAIN st :
              (st[j].status = "approved" /\ st[j].user_id = u)
                  => st[j].updated_at <= st[i].updated_at}

\* The records that share their subject's maximum update timestamp with
\* another approved record of the subject.
TiedRows(st) ==
    {i \in DOMAIN st :
        /\ i \in MostRecentApproved(st, st[i].user_id)
        /\ Cardinality(MostRecentApproved(st, st[i].user_id)) >= 2}

Populated(row) == row.expiry_date = row.updated_at + DAYS_GOOD_FOR

Ended == pc \in {"done", "raised"}

\* C1 as stated: after a complete run, every approved record that holds
\* its subject's maximum update timestamp has expiry = update timestamp +
\* validity days.
C1_EveryMostRecentPopulated ==
    pc = "done" =>
        \A u \in ApprovedUsers(store) :
            \A i \in MostRecentApproved(store, u) : Populated(store[i])

\* C1 amended: after a complete run, every subject with an approved record
\* has an approved record that holds the subject's maximum update timestamp
\* and has expiry = update timestamp + validity days (the one record, when
\* a single record holds the maximum).
C1_SomeMostRecentPopulated ==
    pc = "done" =>
        \A u \in ApprovedUsers(store) :
            \E i \in MostRecentApproved(store, u) : Populated(store[i])

\* A complete first run over a subject with an older and a newer approved
\* record, the newer one populated.
C1_Witness ==
    /\ pc = "done"
    /\ run = "first"
    /\ \E i \in sspv(store), j \in sspv(store) :
          /\ store[i].user_id = store[j].user_id
          /\ store[i].updated_at < store[j].updated_at
          /\ Populated(store[j])
          /\ store0[j].expiry_date = NULL

\* C2: a run over a table without approved records ends at once without an
\* error, calls save() on no row and leaves every row as it was.
C2_NoApprovedNoChange ==
    sspv(store0) = {} =>
        /\ pc \in {"start", "done"}
        /\ store = store0
        /\ \A i \in DOMAIN saves : saves[i] = 0
        /\ windows = <<>>

\* A finished run over a table that holds only records in another status.
C2_Witness ==
    /\ pc = "done"
    /\ sspv(store0) = {}
    /\ Len(store0) >= 2
    /\ store = store0

\* C3 as stated: the run with batch size 1 on a copy of the table ends with
\* the same table as the run with any positive batch size.
C3_SameTableAsBatchOne ==
    (run = "copy" /\ pc = "done") => store = result1.table

\* C3 amended: the two runs end with the same row for every record that
\* does not share its subject's maximum update timestamp with another
\* approved record; with no such tie, with the same table.
C3_SameTableUnlessTied ==
    (run = "copy" /\ pc = "done") =>
        /\ DOMAIN store = DOMAIN result1.table
        /\ \A i \in DOMAIN store :
              i \notin TiedRows(store0) => store[i] = result1.table[i]

\* Both runs complete, the first with a batch size above 1, over two
\* subjects that batch size 1 puts into different windows.
C3_Witness ==
    /\ run = "copy"
    /\ pc = "done"
    /\ result1.batch_size > 1
    /\ batch_size = 1
    /\ Cardinality(ApprovedUsers(store0)) >= 2
    /\ Len(windows) >= 2
    /\ store = result1.table
    /\ store # store0

\* C4 as stated: the second of two runs in succession ends with the table
\* the first run left.
C4_SecondRunSameTable ==
    (run = "again" /\ pc = "done") => store = result1.table

\* C4 amended: the second run changes no expiry the first run wrote, and
\* no row at all except the expiry of a record that shares its subject's
\* maximum update timestamp with another approved record.
C4_SecondRunKeepsWritten ==
    run = "again" =>
        /\ DOMAIN store = DOMAIN result1.table
        /\ \A i \in DOMAIN store :
              (result1.table[i].expiry_date # NULL
                  \/ i \notin TiedRows(result1.table))
                  => store[i] = result1.table[i]

\* A complete second run that saved a row and left the table as the first
\* run had left it.
C4_Witness ==
    /\ run = "again"
    /\ pc = "done"
    /\ \E i \in DOMAIN saves : saves[i] > 0
    /\ store = result1.table

\* C5: a run creates and deletes no record, changes no field but expiry,
\* and changes the expiry of no record but an approved record that holds
\* its subject's maximum update timestamp.
C5_OnlyExpiryOfSelected ==
    /\ DOMAIN store = DOMAIN store0
    /\ \A i \in DOMAIN store :
          /\ store[i].user_id = store0[i].user_id
          /\ store[i].status = store0[i].status
          /\ store[i].updated_at = store0[i].updated_at
          /\ store[i].expiry_date # store0[i].expiry_date
                => i \in MostRecentApproved(store0, store0[i].user_id)

\* A complete run over a subject's newer approved record (written), its
\* older approved record and a record in another status (both untouched).
C5_Witness ==
    /\ pc = "done"
    /\ \E i \in DOMAIN store, j \in DOMAIN store, k \in DOMAIN store :
          /\ store[i].status = "approved"
          /\ store[j].status = "approved"
          /\ store[k].status # "approved"
          /\ store[i].user_id = store[j].user_id
          /\ store[j].updated_at < store[i].updated_at
          /\ store[i].expiry_date # store0[i].expiry_date
          /\ store[j] = store0[j]
          /\ store[k] = store0[k]

\* C9: a save() that fails ends the run with the exception and writes
\* nothing; after it no step is taken (no retry, no later subject, no later
\* window), and every row saved before it keeps the expiry written.
C9_SaveFailureStopsRun ==
    /\ [][(pc = "save" /\ saves' = saves)
            => (pc' = "raised" /\ store' = store)]_vars
    /\ [][pc # "raised"]_vars
    /\ [](pc = "raised" =>
            /\ \A i \in DOMAIN store :
                  saves[i] >= 1 =>
                      store[i].expiry_date
                          = store0[i].updated_at + DAYS_GOOD_FOR
            /\ saves[recent.pk] = 0
            /\ store[recent.pk] = store0[recent.pk]
            /\ \A i \in sspv(store) :
                  (store[i].user_id \in users \/ store[i].user_id >= batch_stop)
                      => (saves[i] = 0 /\ store[i] = store0[i]))

\* A save() failed after an earlier subject was saved and before a subject
\* of a later window was reached.
C9_Witness ==
    /\ pc = "raised"
    /\ \E i \in DOMAIN store : saves[i] = 1 /\ Populated(store[i])
    /\ \E i \in sspv(store) : store[i].user_id >= batch_stop
    /\ store[recent.pk].expiry_date = NULL

\* C10: the windows queried start at the minimum approved subject
\* identifier and follow each other at distance batch_size (ascending,
\* contiguous, not overlapping); no row is saved twice, no row that is not
\* approved is saved, and no subject has two rows saved; after a complete
\* run the windows reach beyond the maximum approved subject identifier and
\* every subject with an approved record lies in exactly one window and has
\* exactly one row saved, exactly once.
C10_WindowsPartitionSubjects ==
    /\ \A k \in 1..Len(windows) :
          windows[k] = LastUserId(store0) + (k - 1) * batch_size
    /\ \A i \in DOMAIN saves :
          /\ saves[i] <= 1
          /\ saves[i] = 1 => store0[i].status = "approved"
    /\ \A u \in UserIds :
          Cardinality({i \in DOMAIN saves :
                          store0[i].user_id = u /\ saves[i] >= 1}) <= 1
    /\ (pc = "done" /\ sspv(store0) # {}) =>
          /\ windows[Len(windows)] + batch_size > FirstUserId(store0)
          /\ \A u \in ApprovedUsers(store0) :
                /\ Cardinality({k \in 1..Len(windows) :
                      windows[k] <= u /\ u < windows[k] + batch_size}) = 1
                /\ Cardinality({i \in DOMAIN saves :
                      store0[i].user_id = u /\ saves[i] = 1}) = 1

\* A complete run of several windows over a subject whose maximum update
\* timestamp two approved records share, and another subject.
C10_Witness ==
    /\ pc = "done"
    /\ Len(windows) >= 2
    /\ TiedRows(store0) # {}
    /\ Cardinality(ApprovedUsers(store0)) >= 2

\* C6: with a positive batch size the run ends; the window start begins at
\* the minimum approved subject identifier, advances by exactly batch_size
\* per iteration, and the loop is left exactly when the start exceeds the
\* maximum approved subject identifier read at the beginning, which the
\* start of the window before did not.
C6_LoopTerminates ==
    /\ (batch_size > 0) ~> Ended
    /\ [][(batch_size > 0 /\ pc = "readmin")
            => (/\ batch_start' = LastUserId(store0)
                /\ max_user_id = FirstUserId(store0))]_vars
    /\ [][(batch_size > 0 /\ pc = "for" /\ pc' = "while")
            => batch_start' = batch_start + batch_size]_vars
    /\ [][(batch_size > 0 /\ pc = "while")
            => (pc' = "done" <=> batch_start > FirstUserId(store0))]_vars
    /\ []((batch_size > 0 /\ pc = "done" /\ sspv(store0) # {})
            => (/\ batch_start > FirstUserId(store0)
                /\ batch_start - batch_size <= FirstUserId(store0)))

\* A run of several windows with a positive batch size has ended.
C6_Witness ==
    /\ batch_size > 0
    /\ pc = "done"
    /\ Len(windows) >= 2
    /\ batch_start > max_user_id

\* C7: every invocation eventually returns or raises, for every accepted
\* value of --batch_size.
C7_AlwaysEnds == <>Ended

\* The expiry last written differs from (update timestamp of the subject's
\* current most recent approved record + validity days).
StaleExpiry ==
    /\ MostRecentApproved(store, recent.user_id) # {}
    /\ \A j \in MostRecentApproved(store, recent.user_id) :
          store[recent.pk].expiry_date # store[j].updated_at + DAYS_GOOD_FOR

\* A write-back has completed and no other writer has written since.
WrittenBack == pc = "for" /\ recent.pk # 0 /\ write_at = ext_writes

\* C8: the write-back persists the instance as latest() read it, whatever
\* was written to the table since: the row becomes the instance, its expiry
\* the instance's update timestamp + validity days; and the expiry is stale
\* once the write-back completes only if another writer wrote between that
\* read and the write-back.
C8_WriteBackOfSnapshot ==
    WrittenBack =>
        /\ store[recent.pk] = RowOf(recent)
        /\ recent.expiry_date = recent.updated_at + DAYS_GOOD_FOR
        /\ StaleExpiry => read_at < write_at

\* Another writer wrote between latest() and save(), and the expiry
\* persisted is stale once the write-back has completed.
C8_Witness ==
    /\ WrittenBack
    /\ read_at < write_at
    /\ StaleExpiry

====
